---------------------------- MODULE Spec2Model ----------------------------
(***************************************************************************)
(* A model of RecordDataset (tf_translate/vision/datasets/                 *)
(* tfrecord_dataset.py): construction (record-count side files, class      *)
(* dictionary), __len__, get_annotation/_get_annotation, get_image and     *)
(* __getitem__ (batch retrieval).                                          *)
(*                                                                         *)
(* Text is modelled as a sequence of one-character strings, so that        *)
(* lower(), strip(), rstrip(), replace(" ", "") and split(',') are         *)
(* computed character by character as Python computes them.                *)
(*                                                                         *)
(* The class never assigns self.ids; it only reads it (lines 40, 91, 96,   *)
(* 119, 126, 130).  The attribute is therefore state supplied from outside *)
(* the class body (a subclass or class attribute): the variable ids, one   *)
(* identifier per sample of the split.                                     *)
(*                                                                         *)
(* transform and target_transform are external callables; the model is of  *)
(* an adapter constructed with both left at their default None.  Images    *)
(* are external too: an image is modelled by the identifier it was read    *)
(* for, and all images have one shape.  TFRecordDataset(...) and           *)
(* tf.FixedLenFeature (lines 38 and 70-72) are calls into the framework    *)
(* that leave nothing the operations below read.                           *)
(*                                                                         *)
(* Difficulty fields are the texts "0" and "1", the empty text and the     *)
(* absent element; coordinates are integer pixel texts, for which          *)
(* float(text) is the integer.  Indices passed to the operations are >= 0. *)
(***************************************************************************)
EXTENDS Integers, Sequences, FiniteSets, TLC

VARIABLES root, args, ids, self, ret

vars == <<root, args, ids, self, ret>>

-----------------------------------------------------------------------------
(* Bounds of the model.                                                    *)

\* largest number of samples of a split
MaxN == 3
\* largest batch size passed to the constructor
MaxBatchSize == 3
\* largest batch index passed to get-batch
MaxIdx == 2
\* largest number of object elements of one annotation file (annotation runs)
MaxObjects == 2

-----------------------------------------------------------------------------
(* Python text operations, on sequences of characters.                     *)

UpperChars == <<"A", "B", "C", "D", "E", "F", "G", "H", "I", "J", "K", "L", "M",
                "N", "O", "P", "Q", "R", "S", "T", "U", "V", "W", "X", "Y", "Z">>

LowerChars == <<"a", "b", "c", "d", "e", "f", "g", "h", "i", "j", "k", "l", "m",
                "n", "o", "p", "q", "r", "s", "t", "u", "v", "w", "x", "y", "z">>

\* the characters str.strip() / str.rstrip() remove by default
Whitespace == {" ", "\t", "\n", "\r"}

\* str.lower() of one character
LowerChar(c) ==
    IF \E i \in DOMAIN UpperChars : UpperChars[i] = c
    THEN LowerChars[CHOOSE i \in DOMAIN UpperChars : UpperChars[i] = c]
    ELSE c

\* str.lower()
lower(s) == [i \in 1..Len(s) |-> LowerChar(s[i])]

\* str.rstrip(): drop trailing whitespace
RECURSIVE rstrip(_)
rstrip(s) ==
    IF s = <<>> THEN <<>>
    ELSE IF s[Len(s)] \in Whitespace THEN rstrip(SubSeq(s, 1, Len(s) - 1))
    ELSE s

\* str.lstrip(): drop leading whitespace
RECURSIVE lstrip(_)
lstrip(s) ==
    IF s = <<>> THEN <<>>
    ELSE IF s[1] \in Whitespace THEN lstrip(Tail(s))
    ELSE s

\* str.strip()
strip(s) == lstrip(rstrip(s))

\* str.replace(" ", ""): every space character removed, nothing else
IsNotSpace(c) == c # " "

replace_spaces(s) == SelectSeq(s, IsNotSpace)

\* str.split(','): the pieces between commas; a text without comma is one piece
RECURSIVE split(_)
split(s) ==
    IF \A i \in 1..Len(s) : s[i] # ","
    THEN <<s>>
    ELSE LET k == CHOOSE i \in 1..Len(s) :
                      s[i] = "," /\ \A j \in 1..(i - 1) : s[j] # ","
         IN  <<SubSeq(s, 1, k - 1)>> \o split(SubSeq(s, k + 1, Len(s)))

\* iteration over a text file: the lines, each with its newline
RECURSIVE FileLines(_)
FileLines(content) ==
    IF content = <<>> THEN <<>>
    ELSE IF \A i \in 1..Len(content) : content[i] # "\n"
    THEN <<content>>
    ELSE LET k == CHOOSE i \in 1..Len(content) :
                      content[i] = "\n" /\ \A j \in 1..(i - 1) : content[j] # "\n"
         IN  <<SubSeq(content, 1, k)>> \o FileLines(SubSeq(content, k + 1, Len(content)))

\* int(text) of a decimal digit string (the difficulty field)
DigitValue(c) ==
    CASE c = "0" -> 0 [] c = "1" -> 1 [] c = "2" -> 2 [] c = "3" -> 3
      [] c = "4" -> 4 [] c = "5" -> 5 [] c = "6" -> 6 [] c = "7" -> 7
      [] c = "8" -> 8 [] c = "9" -> 9

RECURSIVE int(_)
int(s) ==
    IF Len(s) = 1 THEN DigitValue(s[1])
    ELSE 10 * int(SubSeq(s, 1, Len(s) - 1)) + DigitValue(s[Len(s)])

-----------------------------------------------------------------------------
(* Construction: the class dictionary.                                     *)

BACKGROUND == <<"B", "A", "C", "K", "G", "R", "O", "U", "N", "D">>

\* the default class names used when label_map.txt does not exist
DefaultClassNames ==
    << BACKGROUND,
       <<"a", "e", "r", "o", "p", "l", "a", "n", "e">>,
       <<"b", "i", "c", "y", "c", "l", "e">>,
       <<"b", "i", "r", "d">>,
       <<"b", "o", "a", "t">>,
       <<"b", "o", "t", "t", "l", "e">>,
       <<"b", "u", "s">>,
       <<"c", "a", "r">>,
       <<"c", "a", "t">>,
       <<"c", "h", "a", "i", "r">>,
       <<"c", "o", "w">>,
       <<"d", "i", "n", "i", "n", "g", "t", "a", "b", "l", "e">>,
       <<"d", "o", "g">>,
       <<"h", "o", "r", "s", "e">>,
       <<"m", "o", "t", "o", "r", "b", "i", "k", "e">>,
       <<"p", "e", "r", "s", "o", "n">>,
       <<"p", "o", "t", "t", "e", "d", "p", "l", "a", "n", "t">>,
       <<"s", "h", "e", "e", "p">>,
       <<"s", "o", "f", "a">>,
       <<"t", "r", "a", "i", "n">>,
       <<"t", "v", "m", "o", "n", "i", "t", "o", "r">> >>

\* class_string: the lines of the label file, each rstripped, concatenated
RECURSIVE ClassString(_)
ClassString(lines) ==
    IF lines = <<>> THEN <<>>
    ELSE rstrip(Head(lines)) \o ClassString(Tail(lines))

\* the class names read from a label file: split at commas, BACKGROUND
\* inserted in front, the spaces of every element removed
ClassNamesFromFile(content) ==
    LET classes  == split(ClassString(FileLines(content)))
        inserted == <<BACKGROUND>> \o classes
    IN  [i \in 1..Len(inserted) |-> replace_spaces(inserted[i])]

\* self.class_names
ClassNames(label_map) ==
    IF label_map.exists THEN ClassNamesFromFile(label_map.content)
    ELSE DefaultClassNames

\* the dict comprehension {class_name: i for i, class_name in enumerate(names)}:
\* the entries are stored in order, a later entry replacing an equal key
RECURSIVE ClassDict(_)
ClassDict(names) ==
    IF names = <<>> THEN <<>>
    ELSE LET n    == Len(names)
             d    == ClassDict(SubSeq(names, 1, n - 1))
             keys == IF n = 1 THEN {} ELSE DOMAIN d
         IN  [k \in keys \cup {names[n]} |-> IF k = names[n] THEN n - 1 ELSE d[k]]

-----------------------------------------------------------------------------
(* The files under the root directory, and the constructor's arguments.    *)

Text_cat == <<"c", "a", "t">>
Text_dog == <<"d", "o", "g">>
Text_fox == <<"f", "o", "x">>
Text_Dog_padded == <<" ", "D", "o", "g", " ">>

NoFile == [exists |-> FALSE, content |-> <<>>]

\* label_map.txt with content cat,dog
LabelMapCatDog == [exists |-> TRUE, content |-> <<"c", "a", "t", ",", "d", "o", "g">>]

\* the label_map.txt files of the model: none; cat,dog; cat, dog\n;
\* Cat,Dog; hot dog,cat; cat,\ndog\n
LabelMaps ==
    { NoFile,
      LabelMapCatDog,
      [exists |-> TRUE, content |-> <<"c", "a", "t", ",", " ", "d", "o", "g", "\n">>],
      [exists |-> TRUE, content |-> <<"C", "a", "t", ",", "D", "o", "g">>],
      [exists |-> TRUE, content |-> <<"h", "o", "t", " ", "d", "o", "g", ",", "c", "a", "t">>],
      [exists |-> TRUE, content |-> <<"c", "a", "t", ",", "\n", "d", "o", "g", "\n">>] }

\* num_train.txt / num_val.txt: absent, or a file holding one integer
NoCountFile == [exists |-> FALSE, value |-> 0]

CountFiles == { NoCountFile, [exists |-> TRUE, value |-> 2], [exists |-> TRUE, value |-> 7] }

\* the <difficult> child of an object element: absent, empty, or a digit
Difficult_absent == [present |-> FALSE, text |-> <<>>]
Difficult_empty == [present |-> TRUE, text |-> <<>>]
Difficult_0 == [present |-> TRUE, text |-> <<"0">>]
Difficult_1 == [present |-> TRUE, text |-> <<"1">>]

DifficultFields == { Difficult_absent, Difficult_empty, Difficult_0, Difficult_1 }

\* <bndbox> coordinates; float(text) of the integer pixel texts used here
\* is the integer itself
Box_a == <<1, 1, 20, 30>>
Box_b == <<5, 7, 11, 13>>

\* an <object> element
Obj(name, bndbox, difficult) == [name |-> name, bndbox |-> bndbox, difficult |-> difficult]

\* the object elements annotation files are built from in the annotation runs
ObjectPool ==
    { Obj(n, b, d) : n \in {Text_cat, Text_Dog_padded, Text_fox},
                     b \in {Box_a, Box_b},
                     d \in DifficultFields }

\* the sequences of at most n elements of S
SeqsUpTo(S, n) == UNION { [1..k -> S] : k \in 0..n }

\* one sample of the split: Annotations/<id>.xml and JPEGImages/<id>.jpg
Sample(xml_exists, objects, jpg) ==
    [xml |-> [exists |-> xml_exists, objects |-> objects], jpg |-> jpg]

\* cat (difficult 0) and dog (difficult 1)
SampleCatDog ==
    Sample(TRUE, <<Obj(Text_cat, Box_a, Difficult_0), Obj(Text_dog, Box_b, Difficult_1)>>, TRUE)

\* the samples the batch runs build a split from
SamplePool ==
    { SampleCatDog,
      Sample(TRUE, <<Obj(Text_Dog_padded, Box_a, Difficult_1), Obj(Text_fox, Box_b, Difficult_0),
                     Obj(Text_cat, Box_b, Difficult_empty)>>, TRUE),
      Sample(TRUE, <<Obj(Text_fox, Box_a, Difficult_0)>>, TRUE),
      Sample(TRUE, <<Obj(Text_dog, Box_b, Difficult_1)>>, TRUE),
      Sample(TRUE, <<Obj(Text_cat, Box_a, Difficult_absent)>>, TRUE),
      Sample(TRUE, <<Obj(Text_cat, Box_b, Difficult_0)>>, FALSE) }

\* the attributes of an adapter before __init__ has run
NewSelf ==
    [state |-> "new", batch_size |-> 0, keep_difficult |-> FALSE,
     has_num_records |-> FALSE, num_records |-> 0, num_batches |-> 0,
     class_names |-> <<>>, class_dict |-> <<>>]

\* no call made yet
NoRet ==
    [op |-> "none", arg |-> 0, kind |-> "none", error |-> "", value |-> 0,
     boxes |-> <<>>, labels |-> <<>>, is_difficult |-> <<>>,
     inputs |-> <<>>, target |-> <<>>]

\* the state before construction, over the given files and arguments
InitWith(label_map, num_train, num_val, samples, is_test, keep_difficult, batch_size) ==
    /\ root = [label_map |-> label_map, num_train |-> num_train,
               num_val |-> num_val, samples |-> samples]
    /\ args = [is_test |-> is_test, keep_difficult |-> keep_difficult,
               batch_size |-> batch_size]
    /\ ids = [i \in 1..Len(samples) |-> i]
    /\ self = NewSelf
    /\ ret = NoRet

\* construction runs: every label file, every combination of count files,
\* both splits
Init ==
    \E label_map \in LabelMaps,
       num_train \in CountFiles,
       num_val \in CountFiles,
       n \in 0..MaxN,
       is_test \in BOOLEAN,
       batch_size \in 1..MaxBatchSize :
        InitWith(label_map, num_train, num_val, [i \in 1..n |-> SampleCatDog],
                 is_test, FALSE, batch_size)

\* batch runs: splits of up to MaxN samples of the pool, any batch size,
\* both keep_difficult settings, label file cat,dog
InitBatch ==
    \E samples \in SeqsUpTo(SamplePool, MaxN),
       keep_difficult \in BOOLEAN,
       batch_size \in 1..MaxBatchSize :
        InitWith(LabelMapCatDog, NoCountFile, NoCountFile, samples, FALSE,
                 keep_difficult, batch_size)

\* annotation runs: one sample whose annotation file is missing or is any
\* sequence of at most MaxObjects object elements, under every label file
InitAnnotation ==
    \E label_map \in LabelMaps,
       sample \in { Sample(TRUE, objects, TRUE) :
                        objects \in SeqsUpTo(ObjectPool, MaxObjects) }
                   \cup { Sample(FALSE, <<>>, TRUE) } :
        InitWith(label_map, NoCountFile, NoCountFile, <<sample>>, FALSE, FALSE, 1)

-----------------------------------------------------------------------------
(* __init__                                                                *)

\* the count file whose existence is tested (lines 29 and 34)
CountFileTested(r, is_test) == r.num_val

\* the count file that is opened and read (lines 30 and 35)
CountFileRead(r, is_test) == IF is_test THEN r.num_val ELSE r.num_train

\* len(self.ids) // self.batch_size
NumBatches(n, batch_size) == n \div batch_size

\* RecordDataset.__init__: FileNotFoundError when the count file tested
\* exists and the one opened does not; otherwise every attribute is set
Construct ==
    /\ self.state = "new"
    /\ LET tested == CountFileTested(root, args.is_test)
           read   == CountFileRead(root, args.is_test)
           names  == ClassNames(root.label_map)
       IN  IF tested.exists /\ ~read.exists
           THEN /\ self' = [self EXCEPT !.state = "failed",
                                        !.batch_size = args.batch_size]
                /\ ret' = [NoRet EXCEPT !.op = "init", !.kind = "error",
                                        !.error = "FileNotFoundError"]
           ELSE /\ self' = [state |-> "ok",
                            batch_size |-> args.batch_size,
                            keep_difficult |-> args.keep_difficult,
                            has_num_records |-> tested.exists,
                            num_records |-> IF tested.exists THEN read.value ELSE 0,
                            num_batches |-> NumBatches(Len(ids), args.batch_size),
                            class_names |-> names,
                            class_dict |-> ClassDict(names)]
                /\ ret' = [NoRet EXCEPT !.op = "init", !.kind = "ok"]
    /\ UNCHANGED <<root, args, ids>>

-----------------------------------------------------------------------------
(* __len__                                                                 *)

\* RecordDataset.__len__
Length ==
    /\ self.state = "ok"
    /\ ret' = [NoRet EXCEPT !.op = "len", !.kind = "ok", !.value = Len(ids)]
    /\ UNCHANGED <<root, args, ids, self>>

-----------------------------------------------------------------------------
(* _get_annotation, get_annotation                                         *)

\* self.ids[index] for index >= 0: the identifier, or IndexError
IndexInRange(index) == index + 1 \in DOMAIN ids

IdAt(index) == ids[index + 1]

\* object.find('name').text.lower().strip()
ObjectClassName(object) == strip(lower(object.name))

\* a slip in lines 153-156: the coordinates taken as written
ObjectBox_as_written(object) == object.bndbox

\* the corner coordinates of line 153-156: each coordinate less one
ObjectBox(object) ==
    <<object.bndbox[1] - 1, object.bndbox[2] - 1,
      object.bndbox[3] - 1, object.bndbox[4] - 1>>

\* a slip in line 159: the id counted from 1
ObjectLabel_from_one(class_dict, class_name) == class_dict[class_name] + 1

\* self.class_dict[class_name]
ObjectLabel(class_dict, class_name) == class_dict[class_name]

\* int(is_difficult_str) if is_difficult_str else 0, given the element exists
ObjectDifficult(difficult) == IF difficult.text # <<>> THEN int(difficult.text) ELSE 0

\* the loop of _get_annotation from the k-th object on: acc holds the three
\* lists; object.find('difficult').text raises AttributeError when a
\* recognised object has no <difficult> child
RECURSIVE AnnotationLoop(_, _, _, _)
AnnotationLoop(class_dict, objects, k, acc) ==
    IF k > Len(objects) THEN acc
    ELSE LET object     == objects[k]
             class_name == ObjectClassName(object)
         IN  IF class_name \in DOMAIN class_dict
             THEN IF ~object.difficult.present
                  THEN [acc EXCEPT !.error = "AttributeError"]
                  ELSE AnnotationLoop(class_dict, objects, k + 1,
                         [acc EXCEPT
                            !.boxes = Append(@, ObjectBox(object)),
                            !.labels = Append(@, ObjectLabel(class_dict, class_name)),
                            !.is_difficult = Append(@, ObjectDifficult(object.difficult))])
             ELSE AnnotationLoop(class_dict, objects, k + 1, acc)

\* np.array(boxes, dtype=np.float32): an empty list gives a 1-dimensional
\* array of shape (0,), a list of k boxes one of shape (k, 4)
BoxArray(rows) == [ndim |-> IF rows = <<>> THEN 1 ELSE 2, rows |-> rows]

\* RecordDataset._get_annotation: ET.parse raises when the file is missing
GetAnnotationOf(image_id) ==
    LET xml == root.samples[image_id].xml
        empty == [error |-> "", boxes |-> <<>>, labels |-> <<>>, is_difficult |-> <<>>]
    IN  IF ~xml.exists
        THEN [empty EXCEPT !.error = "FileNotFoundError"]
        ELSE LET lists == AnnotationLoop(self.class_dict, xml.objects, 1, empty)
             IN  [error |-> lists.error,
                  boxes |-> BoxArray(lists.boxes),
                  labels |-> lists.labels,
                  is_difficult |-> lists.is_difficult]

\* RecordDataset.get_annotation
GetAnnotation(index) ==
    /\ self.state = "ok"
    /\ ret' = IF ~IndexInRange(index)
              THEN [NoRet EXCEPT !.op = "get_annotation", !.arg = index,
                                 !.kind = "error", !.error = "IndexError"]
              ELSE LET a == GetAnnotationOf(IdAt(index))
                   IN  IF a.error # ""
                       THEN [NoRet EXCEPT !.op = "get_annotation", !.arg = index,
                                          !.kind = "error", !.error = a.error]
                       ELSE [NoRet EXCEPT !.op = "get_annotation", !.arg = index,
                                          !.kind = "ok", !.value = IdAt(index),
                                          !.boxes = a.boxes.rows,
                                          !.labels = a.labels,
                                          !.is_difficult = a.is_difficult]
    /\ UNCHANGED <<root, args, ids, self>>

-----------------------------------------------------------------------------
(* _read_image, get_image                                                  *)

\* RecordDataset._read_image: cv2.imread gives None for a missing file and
\* cv2.cvtColor then raises; otherwise the image of that identifier
ReadImage(image_id) ==
    IF root.samples[image_id].jpg
    THEN [error |-> "", image |-> image_id]
    ELSE [error |-> "cv2.error", image |-> 0]

\* RecordDataset.get_image (no transform configured)
GetImage(index) ==
    /\ self.state = "ok"
    /\ ret' = IF ~IndexInRange(index)
              THEN [NoRet EXCEPT !.op = "get_image", !.arg = index,
                                 !.kind = "error", !.error = "IndexError"]
              ELSE LET im == ReadImage(IdAt(index))
                   IN  IF im.error # ""
                       THEN [NoRet EXCEPT !.op = "get_image", !.arg = index,
                                          !.kind = "error", !.error = im.error]
                       ELSE [NoRet EXCEPT !.op = "get_image", !.arg = index,
                                          !.kind = "ok", !.value = im.image]
    /\ UNCHANGED <<root, args, ids, self>>

-----------------------------------------------------------------------------
(* __getitem__                                                             *)

\* a slip in line 92: end clamped to len(ids)
BatchEnd_clamped_to_len(idx, batch_size, n) ==
    LET end == (idx + 1) * batch_size
    IN  IF end >= n THEN n ELSE end

\* a slip in line 91: end compared with > instead of >=
BatchEnd_strict_compare(idx, batch_size, n) ==
    LET end == (idx + 1) * batch_size
    IN  IF end > n THEN n - 1 ELSE end

\* lines 90-92: end = (idx + 1) * batch_size, set to len(ids) - 1 when it
\* is not below len(ids)
BatchEnd(idx, batch_size, n) ==
    LET end == (idx + 1) * batch_size
    IN  IF end >= n THEN n - 1 ELSE end

\* np.arange(start, stop)
arange(start, stop) ==
    [k \in 1..(IF stop > start THEN stop - start ELSE 0) |-> start + k - 1]

\* the orders np.random.shuffle can leave idxs in: every permutation
Shuffles(idxs) ==
    Permutations(DOMAIN idxs)

\* arr[mask] for a boolean mask over the first axis
RECURSIVE BoolIndex(_, _)
BoolIndex(rows, mask) ==
    IF rows = <<>> THEN <<>>
    ELSE IF Head(mask) THEN <<Head(rows)>> \o BoolIndex(Tail(rows), Tail(mask))
    ELSE BoolIndex(Tail(rows), Tail(mask))

\* a slip in lines 99-100: the mask of the difficult detections
DifficultMask_inverted(is_difficult) ==
    [k \in 1..Len(is_difficult) |-> is_difficult[k] # 0]

\* is_difficult == 0
DifficultMask(is_difficult) == [k \in 1..Len(is_difficult) |-> is_difficult[k] = 0]

\* lines 98-100: the boxes and labels kept for the batch
KeptBoxes(keep_difficult, a) ==
    IF ~keep_difficult
    THEN [a.boxes EXCEPT !.rows = BoolIndex(@, DifficultMask(a.is_difficult))]
    ELSE a.boxes

KeptLabels(keep_difficult, a) ==
    IF ~keep_difficult
    THEN BoolIndex(a.labels, DifficultMask(a.is_difficult))
    ELSE a.labels

\* the shape of a boxes array and of a labels array
BoxShape(boxes) == IF boxes.ndim = 1 THEN <<Len(boxes.rows)>> ELSE <<Len(boxes.rows), 4>>

LabelShape(labels) == <<Len(labels)>>

\* np.array(list of arrays) is a regular array when all have one shape
SameShapes(shapes) == \A i, j \in DOMAIN shapes : shapes[i] = shapes[j]

\* lines 111-116: the arrays stack into (n, k, 4) and (n, k); the labels get
\* a trailing axis and are concatenated to the boxes along axis 2.  Lists of
\* differing shapes, or boxes of shape (0,), make np.array, np.expand_dims
\* or np.concatenate raise
Assemble(inputs, target1, target2) ==
    LET shapes1 == [j \in DOMAIN target1 |-> BoxShape(target1[j])]
        shapes2 == [j \in DOMAIN target2 |-> LabelShape(target2[j])]
        stacks  == /\ SameShapes(shapes1)
                   /\ SameShapes(shapes2)
                   /\ Len(shapes1[1]) = 2
                   /\ shapes1[1][1] = shapes2[1][1]
    IN  IF stacks
        THEN [kind |-> "batch", error |-> "", inputs |-> inputs,
              target |-> [j \in DOMAIN target1 |->
                            [d \in DOMAIN target1[j].rows |->
                               target1[j].rows[d] \o <<target2[j][d]>>]]]
        ELSE [kind |-> "error", error |-> "numpy", inputs |-> <<>>, target |-> <<>>]

\* a slip in line 110: <= instead of ==
BatchComplete_at_most(target1, batch_size) == Len(target1) <= batch_size

\* line 110: len(target1) == self.batch_size
BatchComplete(target1, batch_size) == Len(target1) = batch_size

\* the loop of lines 95-116 from position j of the shuffled idxs on; it
\* returns from inside when batch_size samples have accumulated, and falls
\* off the end of the function (None) otherwise
RECURSIVE BatchLoop(_, _, _)
BatchLoop(idxs, j, acc) ==
    IF j > Len(idxs)
    THEN [kind |-> "none", error |-> "", inputs |-> <<>>, target |-> <<>>]
    ELSE IF ~IndexInRange(idxs[j])
    THEN [kind |-> "error", error |-> "IndexError", inputs |-> <<>>, target |-> <<>>]
    ELSE LET image_id == IdAt(idxs[j])
             a        == GetAnnotationOf(image_id)
             im       == ReadImage(image_id)
             inputs   == Append(acc.inputs, im.image)
             target1  == Append(acc.target1, KeptBoxes(self.keep_difficult, a))
             target2  == Append(acc.target2, KeptLabels(self.keep_difficult, a))
         IN  IF a.error # ""
             THEN [kind |-> "error", error |-> a.error, inputs |-> <<>>, target |-> <<>>]
             ELSE IF im.error # ""
             THEN [kind |-> "error", error |-> im.error, inputs |-> <<>>, target |-> <<>>]
             ELSE IF BatchComplete(target1, self.batch_size)
             THEN Assemble(inputs, target1, target2)
             ELSE BatchLoop(idxs, j + 1,
                            [inputs |-> inputs, target1 |-> target1, target2 |-> target2])

\* RecordDataset.__getitem__
GetItem(idx) ==
    /\ self.state = "ok"
    /\ LET end  == BatchEnd(idx, self.batch_size, Len(ids))
           idxs == arange(idx * self.batch_size, end)
       IN  \E p \in Shuffles(idxs) :
              LET shuffled == [k \in DOMAIN idxs |-> idxs[p[k]]]
                  r == BatchLoop(shuffled, 1,
                                 [inputs |-> <<>>, target1 |-> <<>>, target2 |-> <<>>])
              IN  ret' = [NoRet EXCEPT !.op = "getitem", !.arg = idx,
                                       !.kind = r.kind, !.error = r.error,
                                       !.inputs = r.inputs, !.target = r.target]
    /\ UNCHANGED <<root, args, ids, self>>

-----------------------------------------------------------------------------
(* The specifications.                                                     *)

\* every operation, with every index up to the first one out of range
Next ==
    \/ Construct
    \/ Length
    \/ \E index \in 0..Len(ids) : GetAnnotation(index)
    \/ \E index \in 0..Len(ids) : GetImage(index)
    \/ \E idx \in 0..MaxIdx : GetItem(idx)

\* construction followed by any sequence of calls
Spec == Init /\ [][Next]_vars

\* construction followed by batch retrievals
NextBatch ==
    \/ Construct
    \/ \E idx \in 0..MaxIdx : GetItem(idx)

SpecBatch == InitBatch /\ [][NextBatch]_vars

\* construction followed by annotation accesses
NextAnnotation ==
    \/ Construct
    \/ \E index \in 0..Len(ids) : GetAnnotation(index)

SpecAnnotation == InitAnnotation /\ [][NextAnnotation]_vars

-----------------------------------------------------------------------------
(* Properties of batch retrieval (checked under SpecBatch).                *)

Min(a, b) == IF a < b THEN a ELSE b

\* the index range [b*bs, min((b+1)*bs, N-1)) of batch index b
IndexRange(b) ==
    { i \in 0..(Len(ids) - 1) :
          /\ b * self.batch_size <= i
          /\ i < Min((b + 1) * self.batch_size, Len(ids) - 1) }

\* the last call was get-batch
BatchCall == self.state = "ok" /\ ret.op = "getitem"

\* the identifiers of the samples of the returned batch
BatchIds == { ret.inputs[j] : j \in DOMAIN ret.inputs }

\* C1: whenever get-batch(b) returns a batch, it holds exactly batch_size
\* samples, and they are the samples at the indices of
\* [b*bs, min((b+1)*bs, N-1)), each exactly once, in some order.
C1_BatchIsPermutationOfRange ==
    (BatchCall /\ ret.kind = "batch") =>
        /\ Len(ret.inputs) = self.batch_size
        /\ Len(ret.target) = self.batch_size
        /\ BatchIds = { ids[i + 1] : i \in IndexRange(ret.arg) }
        /\ \A j, k \in DOMAIN ret.inputs : j # k => ret.inputs[j] # ret.inputs[k]

\* a batch of two samples was returned, in an order other than the index order
C1_Witness ==
    /\ BatchCall
    /\ ret.kind = "batch"
    /\ self.batch_size = 2
    /\ ret.inputs[1] > ret.inputs[2]

\* C2 (as claimed): label file cat,dog, a split of the one sample with cat
\* (difficult 0) and dog (difficult 1), keep_difficult false, batch size 1:
\* get-batch(0) yields one sample whose target holds only the cat detection,
\* with label id 1.
C2_EndToEndYieldsCat ==
    ( /\ BatchCall
      /\ root.label_map = LabelMapCatDog
      /\ root.samples = <<SampleCatDog>>
      /\ ~self.keep_difficult
      /\ self.batch_size = 1
      /\ ret.arg = 0 ) =>
        /\ ret.kind = "batch"
        /\ ret.target = << << <<0, 0, 19, 29, 1>> >> >>

\* every annotation access and image read of the samples of a range succeeds
ReadsSucceed(range) ==
    \A i \in range :
        /\ GetAnnotationOf(ids[i + 1]).error = ""
        /\ ReadImage(ids[i + 1]).error = ""

\* the targets of the samples of a range stack: every sample has a
\* recognised object (a boxes array of rank 2) and all keep the same number
\* of detections
TargetsStack(range) ==
    \A i, j \in range :
        LET a == GetAnnotationOf(ids[i + 1])
            b == GetAnnotationOf(ids[j + 1])
        IN  /\ a.boxes.ndim = 2
            /\ Len(KeptLabels(self.keep_difficult, a))
                 = Len(KeptLabels(self.keep_difficult, b))

Detections(a) == [k \in DOMAIN a.labels |-> <<a.boxes.rows[k], a.labels[k], a.is_difficult[k]>>]

IsNotDifficult(detection) == detection[3] = 0

\* the rows (x1, y1, x2, y2, label) of a sequence of detections
TargetRows(detections) ==
    [k \in DOMAIN detections |-> detections[k][1] \o <<detections[k][2]>>]

\* C4: for every batch returned and every sample in it, with keep_difficult
\* false the sample's boxes and labels are exactly the annotation's
\* detections whose difficulty flag is 0, in annotation order (so none with
\* flag 1 appears); with keep_difficult true all detections are kept.
C4_DifficultFiltered ==
    (BatchCall /\ ret.kind = "batch") =>
        \A j \in DOMAIN ret.target :
            LET detections == Detections(GetAnnotationOf(ret.inputs[j]))
            IN  ret.target[j] =
                  IF self.keep_difficult
                  THEN TargetRows(detections)
                  ELSE TargetRows(SelectSeq(detections, IsNotDifficult))

\* a batch of two samples with keep_difficult false, from one of which a
\* difficult detection was removed and a later detection kept
C4_Witness ==
    /\ BatchCall
    /\ ret.kind = "batch"
    /\ ~self.keep_difficult
    /\ self.batch_size = 2
    /\ \E j \in DOMAIN ret.target :
          LET a == GetAnnotationOf(ret.inputs[j])
          IN  /\ Len(a.labels) = 2
              /\ a.is_difficult = <<1, 0>>
              /\ Len(ret.target[j]) = 1

\* C10 (as claimed): the sample at the last index N-1 never appears in a
\* returned batch, every call with (b+1)*bs >= N returns no result, and the
\* returned batches cover at most bs*floor((N-1)/bs) samples.
C10_Original ==
    (BatchCall /\ Len(ids) >= 1) =>
        /\ ret.kind = "batch" => ids[Len(ids)] \notin BatchIds
        /\ (ret.arg + 1) * self.batch_size >= Len(ids) => ret.kind = "none"
        /\ ret.kind = "batch" =>
             \A id \in BatchIds :
                 id <= self.batch_size * ((Len(ids) - 1) \div self.batch_size)

\* C10 (amended): the sample at the last index N-1 never appears in a
\* returned batch; every call with (b+1)*bs >= N returns no batch: no result
\* when every read of a sample in its range succeeds, the read's error
\* otherwise; the returned batches cover at most bs*floor((N-1)/bs) samples.
C10_LastSampleNeverServed ==
    (BatchCall /\ Len(ids) >= 1) =>
        /\ ret.kind = "batch" => ids[Len(ids)] \notin BatchIds
        /\ (ret.arg + 1) * self.batch_size >= Len(ids) =>
             /\ ret.kind # "batch"
             /\ ret.kind = "none" <=> ReadsSucceed(IndexRange(ret.arg))
        /\ ret.kind = "batch" =>
             \A id \in BatchIds :
                 id <= self.batch_size * ((Len(ids) - 1) \div self.batch_size)

\* the final full batch of a split whose size is a multiple of the batch
\* size was asked for, every sample readable, and no result came back
C10_Witness ==
    /\ BatchCall
    /\ Len(ids) = 2
    /\ self.batch_size = 2
    /\ ret.arg = 0
    /\ \A i \in 0..1 : GetAnnotationOf(ids[i + 1]).error = "" /\ ReadImage(ids[i + 1]).error = ""
    /\ ret.kind = "none"

-----------------------------------------------------------------------------
(* Properties of annotation access (checked under SpecAnnotation).         *)

\* the last call was annotation access on a sample of the split
AnnotationCall ==
    self.state = "ok" /\ ret.op = "get_annotation" /\ IndexInRange(ret.arg)

\* the object elements of the annotation file of the sample accessed
ObjectsAccessed == root.samples[ids[ret.arg + 1]].xml.objects

\* the trimmed, case-folded class name of an object element is a name of
\* the Class Dictionary
IsRecognized(object) ==
    \E name \in DOMAIN self.class_dict : name = strip(lower(object.name))

RecognizedAccessed == SelectSeq(ObjectsAccessed, IsRecognized)

\* C5: annotation access returns three arrays of equal length holding one
\* entry, in source order, for exactly the object elements whose trimmed,
\* case-folded class name is a name of the Class Dictionary: the box is
\* (xmin-1, ymin-1, xmax-1, ymax-1) and the label the dictionary id of the
\* name; objects of any other class name are skipped without error.
C5_AnnotationArrays ==
    AnnotationCall =>
        /\ ret.kind = "ok" =>
             /\ Len(ret.boxes) = Len(ret.labels)
             /\ Len(ret.labels) = Len(ret.is_difficult)
             /\ Len(ret.boxes) = Len(RecognizedAccessed)
             /\ \A k \in DOMAIN ret.boxes :
                   LET object == RecognizedAccessed[k]
                   IN  /\ ret.boxes[k][1] = object.bndbox[1] - 1
                       /\ ret.boxes[k][2] = object.bndbox[2] - 1
                       /\ ret.boxes[k][3] = object.bndbox[3] - 1
                       /\ ret.boxes[k][4] = object.bndbox[4] - 1
                       /\ ret.labels[k] = self.class_dict[strip(lower(object.name))]
        /\ ret.kind = "error" =>
             \/ ~root.samples[ids[ret.arg + 1]].xml.exists
             \/ \E k \in DOMAIN RecognizedAccessed :
                   ~RecognizedAccessed[k].difficult.present

\* an annotation of one unrecognised object (without a difficulty field)
\* and one recognised object returned exactly one detection
C5_Witness ==
    /\ AnnotationCall
    /\ ret.kind = "ok"
    /\ Len(ObjectsAccessed) = 2
    /\ ~IsRecognized(ObjectsAccessed[1])
    /\ ~ObjectsAccessed[1].difficult.present
    /\ IsRecognized(ObjectsAccessed[2])
    /\ Len(ret.labels) = 1

\* the ids the Class Dictionary assigns
DictionaryIds == { self.class_dict[name] : name \in DOMAIN self.class_dict }

\* C6: each label id returned by annotation access is an id the Class
\* Dictionary assigns to a class name, within the dictionary's id range.
C6_LabelsInDictionary ==
    (AnnotationCall /\ ret.kind = "ok") =>
        \A k \in DOMAIN ret.labels :
            /\ ret.labels[k] \in DictionaryIds
            /\ ret.labels[k] >= 0
            /\ ret.labels[k] < Len(self.class_names)

\* a label file's dictionary, and the largest id of it returned
C6_Witness ==
    /\ AnnotationCall
    /\ ret.kind = "ok"
    /\ root.label_map.exists
    /\ \E k \in DOMAIN ret.labels : ret.labels[k] = Len(self.class_names) - 1

\* the difficulty flag the claim gives an object: the integer of the field,
\* 0 when the field is empty or absent
ClaimedFlag(object) ==
    IF ~object.difficult.present \/ object.difficult.text = <<>>
    THEN 0
    ELSE int(object.difficult.text)

\* C7 (as claimed): for every recognised object the difficulty flag is the
\* integer value of its difficult field, 0 when the field is empty and 0
\* when the field is absent, and annotation access does not fail.
C7_DifficultDefaultsToZero ==
    (AnnotationCall /\ root.samples[ids[ret.arg + 1]].xml.exists) =>
        /\ ret.kind = "ok"
        /\ ret.is_difficult =
             [k \in DOMAIN RecognizedAccessed |-> ClaimedFlag(RecognizedAccessed[k])]

-----------------------------------------------------------------------------
(* Properties of construction (checked under Spec).                        *)

\* the names of the label file as the claim reads them: the pieces between
\* commas, whitespace stripped; the default list when there is no file
ClaimedNames ==
    IF root.label_map.exists
    THEN LET pieces == split(root.label_map.content)
         IN  [i \in DOMAIN pieces |-> strip(pieces[i])]
    ELSE Tail(DefaultClassNames)

\* C8 (as claimed): the Class Dictionary maps lowercase class names to
\* unique non-negative ids, the background class has id 0 and the i-th name
\* of the label file (or of the default list) has id i.
C8_ClassDictionary ==
    self.state = "ok" =>
        /\ BACKGROUND \in DOMAIN self.class_dict
        /\ self.class_dict[BACKGROUND] = 0
        /\ \A name \in DOMAIN self.class_dict :
              /\ name = BACKGROUND \/ name = lower(name)
              /\ self.class_dict[name] >= 0
        /\ \A m, n \in DOMAIN self.class_dict :
              m # n => self.class_dict[m] # self.class_dict[n]
        /\ \A i \in DOMAIN ClaimedNames :
              /\ ClaimedNames[i] \in DOMAIN self.class_dict
              /\ self.class_dict[ClaimedNames[i]] = i

\* the record-count file of the selected split
OwnCountFile == IF args.is_test THEN root.num_val ELSE root.num_train

\* C9 (as claimed): construction stores the integer of the selected split's
\* own count file exactly when that file exists, never fails for a missing
\* count file, and the length query reports the stored count when the count
\* file exists, otherwise the count of identifiers.
C9_CountFileAndLength ==
    self.state # "new" =>
        /\ self.state = "ok"
        /\ self.has_num_records <=> OwnCountFile.exists
        /\ OwnCountFile.exists => self.num_records = OwnCountFile.value
        /\ ret.op = "len" =>
             ret.value = IF OwnCountFile.exists THEN OwnCountFile.value ELSE Len(ids)

=============================================================================
